---- MODULE Spec2Model ----
(***************************************************************************)
(* Model of the HeyGen avatar gallery: the Catalog Client (HeyGenService)  *)
(* with its fallback datasets, the View-State Orchestrator                *)
(* (AvatarGallery) with its fetches, effects, handlers and render, and     *)
(* the details modal (AvatarDetailsModal) it mounts.                       *)
(*                                                                         *)
(* JavaScript is single-threaded: a handler, the re-render it causes and   *)
(* the effects of that render run to completion before any other event     *)
(* or promise continuation is processed.  Each such run is one action.     *)
(* An async function is split at its await: the part before the await      *)
(* belongs to the action that calls it, the part after it is a Resolve     *)
(* action of its own.                                                      *)
(***************************************************************************)
EXTENDS Integers, Sequences, FiniteSets, Bags, TLC

VARIABLES
    avatars,          \* useState<Avatar[]>([])
    groups,           \* useState<AvatarGroup[]>([])
    loading,          \* useState(true)
    groupsLoading,    \* useState(true)
    error,            \* useState<string | null>(null)
    viewMode,         \* useState<'avatars' | 'groups'>('avatars')
    selectedAvatarId, \* useState<string | null>(null)
    filters,          \* useState<FilterOptions>({gender:'all', premiumOnly:false})
    currentPage,      \* useState(1)
    totalPages,       \* useState(1)
    totalItems,       \* useState(0)
    mounted,          \* the mount effects have run
    inflight,         \* bag of avatars requests awaiting HeyGenService.fetchAvatars
    groupsInflight,   \* number of fetchGroups calls awaiting fetchAvatarGroups
    completed,        \* history: some avatars fetch has run to its finally block
    ev,               \* history: the step that produced this state: the
                      \* mount, a page change, a group-card selection, a
                      \* fetch resolution (with its request and data) or
                      \* another handler call
    lastIssued,       \* history: the avatars request sent most recently,
                      \* kept while that request is in flight
    call,             \* Catalog Client call under test (client specification)
    result,           \* what that call resolved with
    modal,            \* the mounted AvatarDetailsModal instance, if any: its
                      \* details / loading / error state
    modalOpens,       \* number of AvatarDetailsModal instances mounted so
                      \* far; the mounted instance is instance modalOpens
    detailsInflight   \* bag of detail requests awaiting
                      \* HeyGenService.fetchAvatarDetails, each with the
                      \* instance whose fetchAvatarDetails sent it

galleryVars == <<avatars, groups, loading, groupsLoading, error, viewMode,
                 selectedAvatarId, filters, currentPage, totalPages,
                 totalItems, mounted, inflight, groupsInflight, completed>>
clientVars == <<call, result>>
modalVars == <<modal, modalOpens, detailsInflight>>
vars == <<galleryVars, ev, lastIssued, clientVars, modalVars>>

----------------------------------------------------------------------------
(* Bounds of the model *)

\* at most this many fetches (avatars and groups together) await their
\* response at once
MaxInFlight == 2
\* the largest page number passed to handlePageChange
MaxPageArg == 2
\* the largest page number passed to the client when it is exercised alone
MaxClientPage == 4
\* the details modal is opened at most this many times
MaxModalOpens == 2
\* at most this many detail requests await their response at once
MaxDetailsInFlight == 2

----------------------------------------------------------------------------
(* JavaScript values and helpers *)

\* JavaScript null
Null == "<null>"
\* JavaScript undefined (an absent optional argument or property)
Undefined == "<undefined>"
\* a response body without a usable data object
NoData == [missing |-> TRUE]

\* truthiness of a string-or-null value, as tested by `if (x)` / `x && ...`
Truthy(v) == v # Null /\ v # Undefined /\ v # ""

Min(a, b) == IF a < b THEN a ELSE b
Max(a, b) == IF a > b THEN a ELSE b

\* Math.ceil(a / b) for integers a >= 0, b > 0
MathCeilDiv(a, b) == (a + b - 1) \div b

\* Array.prototype.slice(start, end): negative indices count from the end,
\* indices are clamped to the array
JsSlice(arr, start, end) ==
    LET len == Len(arr)
        s == IF start < 0 THEN Max(len + start, 0) ELSE Min(start, len)
        e == IF end < 0 THEN Max(len + end, 0) ELSE Min(end, len)
    IN IF s >= e THEN <<>> ELSE SubSeq(arr, s + 1, e)

\* position of the first occurrence of sub in s (1-based), 0 when absent
RECURSIVE IndexOfFrom(_, _, _)
IndexOfFrom(s, sub, i) ==
    IF i + Len(sub) - 1 > Len(s) THEN 0
    ELSE IF SubSeq(s, i, i + Len(sub) - 1) = sub THEN i
    ELSE IndexOfFrom(s, sub, i + 1)

\* String.prototype.includes
StrIncludes(s, sub) == IndexOfFrom(s, sub, 1) # 0

\* String.prototype.replace(sub, '') with a string pattern: removes the
\* first occurrence only
StrRemoveFirst(s, sub) ==
    LET i == IndexOfFrom(s, sub, 1)
    IN IF i = 0 THEN s
       ELSE SubSeq(s, 1, i - 1) \o SubSeq(s, i + Len(sub), Len(s))

DigitValue(c) ==
    CASE c = "0" -> 0 [] c = "1" -> 1 [] c = "2" -> 2 [] c = "3" -> 3
      [] c = "4" -> 4 [] c = "5" -> 5 [] c = "6" -> 6 [] c = "7" -> 7
      [] c = "8" -> 8 [] c = "9" -> 9 [] OTHER -> -1

\* the digits of s from position i on, read as a decimal number; acc is the
\* value so far, seen says whether a digit has been read; NaN is <<FALSE, 0>>
RECURSIVE ParseDigits(_, _, _, _)
ParseDigits(s, i, acc, seen) ==
    IF i > Len(s) \/ DigitValue(SubSeq(s, i, i)) < 0
    THEN <<seen, acc>>
    ELSE ParseDigits(s, i + 1, acc * 10 + DigitValue(SubSeq(s, i, i)), TRUE)

\* parseInt(s): optional sign, then leading decimal digits; <<FALSE, 0>> is NaN
ParseInt(s) ==
    LET sign == IF Len(s) > 0 /\ SubSeq(s, 1, 1) = "-" THEN -1 ELSE 1
        from == IF Len(s) > 0 /\ SubSeq(s, 1, 1) \in {"-", "+"} THEN 2 ELSE 1
        r == ParseDigits(s, from, 0, FALSE)
    IN <<r[1], sign * r[2]>>

----------------------------------------------------------------------------
(* Catalog Client: HeyGenService *)

\* avatars 4..53 of the substitute pool: Array.from({length: 50}, (_, i) => ...)
MockGenerated(i) ==
    [avatar_id |-> "mock_avatar_" \o ToString(i + 4),
     gender |-> IF i % 2 = 0 THEN "male" ELSE "female",
     premium |-> (i % 5 = 0)]

\* the fixed candidate pool of getMockAvatarData
AllMockAvatars ==
    << [avatar_id |-> "Abigail_expressive_2024112501",
        gender |-> "female", premium |-> FALSE],
       [avatar_id |-> "Abigail_standing_office_front",
        gender |-> "female", premium |-> FALSE],
       [avatar_id |-> "Abigail_standing_office_side",
        gender |-> "female", premium |-> FALSE] >>
    \o [j \in 1..50 |-> MockGenerated(j - 1)]

\* parseInt(groupId.replace('group_', '')) || 1
MockGroupIndex(groupId) ==
    LET p == ParseInt(StrRemoveFirst(groupId, "group_"))
    IN IF p[1] /\ p[2] # 0 THEN p[2] ELSE 1

\* a group filter whose window always starts at the head of the pool
MockFilteredAvatarsFromStart(groupId) ==
    IF Truthy(groupId) /\ groupId # "all"
    THEN LET startIndex == 0
             endIndex == MockGroupIndex(groupId) * 15
         IN JsSlice(AllMockAvatars, startIndex, endIndex)
    ELSE AllMockAvatars

\* the pool after the group filter of getMockAvatarData
MockFilteredAvatars(groupId) ==
    IF Truthy(groupId) /\ groupId # "all"
    THEN LET startIndex == (MockGroupIndex(groupId) - 1) * 15
             endIndex == startIndex + 15
         IN JsSlice(AllMockAvatars, startIndex, endIndex)
    ELSE AllMockAvatars

\* group ids a caller passes to the client
GroupIdArgs == {Undefined, "", "all", "group_1", "group_2", "group_3",
                "group_4", "group_5", "group_0", "group_-1", "abc", "7"}

\* filteredAvatars for each of these group ids, computed once
MockPoolOf == [g \in GroupIdArgs |-> MockFilteredAvatars(g)]

\* Math.ceil(filteredAvatars.length / params.page_size)
MockTotalPages(len, page_size) == MathCeilDiv(len, page_size)

\* getMockAvatarData whose pagination starts at page * page_size
GetMockAvatarDataSkipsFirstPage(params, groupId) ==
    LET filteredAvatars == MockPoolOf[groupId]
        startIndex == params.page * params.page_size
        endIndex == startIndex + params.page_size
        paginatedAvatars == JsSlice(filteredAvatars, startIndex, endIndex)
    IN [error |-> Null,
        data |-> [avatars |-> paginatedAvatars,
                  count |-> Len(paginatedAvatars),
                  total |-> Len(filteredAvatars),
                  page |-> params.page,
                  page_size |-> params.page_size,
                  total_pages |-> MockTotalPages(Len(filteredAvatars),
                                                 params.page_size)]]

\* getMockAvatarData(params, groupId)
GetMockAvatarData(params, groupId) ==
    LET filteredAvatars == MockPoolOf[groupId]
        startIndex == (params.page - 1) * params.page_size
        endIndex == startIndex + params.page_size
        paginatedAvatars == JsSlice(filteredAvatars, startIndex, endIndex)
    IN [error |-> Null,
        data |-> [avatars |-> paginatedAvatars,
                  count |-> Len(paginatedAvatars),
                  total |-> Len(filteredAvatars),
                  page |-> params.page,
                  page_size |-> params.page_size,
                  total_pages |-> MockTotalPages(Len(filteredAvatars),
                                                 params.page_size)]]

\* getMockGroupData()
GetMockGroupData ==
    LET mockGroups ==
          << [avatar_group_id |-> "group_1", title |-> "Business Professionals",
              avatar_count |-> 15],
             [avatar_group_id |-> "group_2", title |-> "Casual & Friendly",
              avatar_count |-> 12],
             [avatar_group_id |-> "group_3", title |-> "Healthcare & Medical",
              avatar_count |-> 8],
             [avatar_group_id |-> "group_4", title |-> "Creative & Artistic",
              avatar_count |-> 10] >>
    IN [error |-> Null,
        data |-> [avatar_groups |-> mockGroups,
                  count |-> Len(mockGroups),
                  total |-> Len(mockGroups)]]

\* getMockAvatarDetails(avatarId)
GetMockAvatarDetails(avatarId) ==
    [error |-> Null,
     data |-> [avatar_id |-> avatarId,
               avatar_name |-> IF StrIncludes(avatarId, "Abigail")
                               THEN "Abigail Professional"
                               ELSE "Professional Avatar",
               gender |-> IF StrIncludes(avatarId, "female")
                             \/ StrIncludes(avatarId, "Abigail")
                          THEN "female" ELSE "male",
               premium |-> FALSE]]

\* What the remote service did with one request.  transport is how the
\* fetch / response.ok / response.json() sequence ended; body is the parsed
\* body when it ended well.
TransportFailures == {"network_error", "http_error", "bad_body"}

\* the try block of the three client operations throws exactly when the
\* fetch rejects, response.ok is false or response.json() rejects
ClientThrows(outcome) == outcome.transport \in TransportFailures

\* size of the catalog the live service pages through
LiveCatalogSize == 3

\* record i of the live service's catalog
LiveAvatar(i) ==
    [avatar_id |-> "live_avatar_" \o ToString(i),
     gender |-> IF i % 3 = 0 THEN "male" ELSE "female",
     premium |-> (i % 2 = 0)]

\* a well-formed avatars body of the live service: `const data = await
\* response.json()` with the wire shape {error, data: {avatars, count, total,
\* page, page_size, total_pages}}
LiveAvatarData(params, groupId) ==
    LET catalog == [i \in 1..LiveCatalogSize |-> LiveAvatar(i)]
        page == JsSlice(catalog, (params.page - 1) * params.page_size,
                        params.page * params.page_size)
    IN [avatars |-> page,
        count |-> Len(page),
        total |-> LiveCatalogSize,
        page |-> params.page,
        page_size |-> params.page_size,
        total_pages |-> Max(1, MathCeilDiv(LiveCatalogSize, params.page_size))]

\* the bodies response.json() yields for an avatars request when the
\* service honours the wire contract: a page, or a logical failure (error
\* set, no data)
LiveAvatarBodies(params, groupId) ==
    { [error |-> Null, data |-> LiveAvatarData(params, groupId)],
      [error |-> "api_error", data |-> NoData] }

\* the group list of the live service
LiveGroups ==
    << [avatar_group_id |-> "group_5", title |-> "Live Group",
        avatar_count |-> 3] >>

\* the bodies response.json() can yield for a groups request
LiveGroupBodies ==
    { [error |-> Null,
       data |-> [avatar_groups |-> LiveGroups, count |-> 1, total |-> 1]],
      [error |-> "api_error", data |-> NoData] }

\* the bodies response.json() can yield for a details request
LiveDetailBodies(avatarId) ==
    { [error |-> Null,
       data |-> [avatar_id |-> avatarId, avatar_name |-> "Live Avatar",
                 gender |-> "female", premium |-> TRUE]],
      [error |-> "api_error", data |-> NoData] }

\* a parsed body that carries neither an error nor data
NoBody == [error |-> Null, data |-> NoData]

\* every way a request for the given bodies can end
OutcomesOf(bodies) ==
    { [transport |-> t, body |-> NoBody] : t \in TransportFailures }
    \cup { [transport |-> "ok", body |-> b] : b \in bodies }

\* the outcomes a caller of the client can tell apart: the three client
\* operations answer every transport failure through the same catch block,
\* so one failure stands for all three
OutcomesSeenOf(bodies) ==
    { [transport |-> "network_error", body |-> NoBody] }
    \cup { [transport |-> "ok", body |-> b] : b \in bodies }

\* a promise that resolved with v / a promise that rejected
Resolved(v) == [rejected |-> FALSE, value |-> v]
Rejected == [rejected |-> TRUE, value |-> NoBody]

\* fetchAvatars that also substitutes the fallback for a parsed body whose
\* error field is set
FetchAvatarsFallbackOnError(params, groupId, outcome) ==
    IF ClientThrows(outcome) \/ Truthy(outcome.body.error)
    THEN Resolved(GetMockAvatarData(params, groupId))
    ELSE Resolved(outcome.body)

\* fetchAvatars whose substitute page depends on how the request failed: an
\* unparsable body yields page 1 whatever page was asked for
FetchAvatarsFallbackByFailure(params, groupId, outcome) ==
    IF ClientThrows(outcome)
    THEN Resolved(GetMockAvatarData(
            IF outcome.transport = "bad_body"
            THEN [params EXCEPT !.page = 1] ELSE params, groupId))
    ELSE Resolved(outcome.body)

\* HeyGenService.fetchAvatars(params, groupId): the parsed body, or the
\* substitute page when the try block threw
FetchAvatars(params, groupId, outcome) ==
    IF ClientThrows(outcome)
    THEN Resolved(GetMockAvatarData(params, groupId))
    ELSE Resolved(outcome.body)

\* fetchAvatarGroups whose catch block rethrows an HTTP error
FetchAvatarGroupsRethrow(includePublic, outcome) ==
    IF outcome.transport = "http_error" THEN Rejected
    ELSE IF ClientThrows(outcome) THEN Resolved(GetMockGroupData)
    ELSE Resolved(outcome.body)

\* HeyGenService.fetchAvatarGroups(includePublic)
FetchAvatarGroups(includePublic, outcome) ==
    IF ClientThrows(outcome)
    THEN Resolved(GetMockGroupData)
    ELSE Resolved(outcome.body)

\* HeyGenService.fetchAvatarDetails(avatarId)
FetchAvatarDetails(avatarId, outcome) ==
    IF ClientThrows(outcome)
    THEN Resolved(GetMockAvatarDetails(avatarId))
    ELSE Resolved(outcome.body)

----------------------------------------------------------------------------
(* Catalog Client, exercised call by call *)

\* page sizes a caller passes to the client (20 is the gallery's)
PageSizeArgs == {1, 15, 20}
\* avatar ids a caller passes to the client
AvatarIdArgs == {"Abigail_expressive_2024112501", "mock_avatar_4",
                 "my_female_avatar"}

NoCall == [op |-> "none"]
NoResult == [pending |-> TRUE]

ListAvatarsCalls ==
    UNION { { [op |-> "listAvatars", params |-> ps, groupId |-> g,
               outcome |-> o] : o \in OutcomesOf(LiveAvatarBodies(ps, g) \cup {NoBody}) } :
            ps \in [page : 1..MaxClientPage, page_size : PageSizeArgs],
            g \in GroupIdArgs }

ListGroupsCalls ==
    { [op |-> "listGroups", includePublic |-> b, outcome |-> o] :
        b \in BOOLEAN, o \in OutcomesOf(LiveGroupBodies \cup {NoBody}) }

GetAvatarDetailCalls ==
    UNION { { [op |-> "getAvatarDetail", avatarId |-> a, outcome |-> o] :
                o \in OutcomesOf(LiveDetailBodies(a) \cup {NoBody}) } :
            a \in AvatarIdArgs }

ClientCalls == ListAvatarsCalls \cup ListGroupsCalls \cup GetAvatarDetailCalls

\* the promise the client hands back for a call
ClientResult(c) ==
    CASE c.op = "listAvatars" -> FetchAvatars(c.params, c.groupId, c.outcome)
      [] c.op = "listGroups" -> FetchAvatarGroups(c.includePublic, c.outcome)
      [] c.op = "getAvatarDetail" -> FetchAvatarDetails(c.avatarId, c.outcome)

----------------------------------------------------------------------------
(* View-State Orchestrator: AvatarGallery *)

\* const [pageSize] = useState(20)
PageSize == 20

\* no avatars request has been sent yet
NoRequest == [params |-> Null]

\* no AvatarDetailsModal is mounted: {selectedAvatarId && <AvatarDetailsModal/>}
\* renders nothing, and an unmounted instance has no state (details are
\* NoData when there is no detail record)
NoModal == [mounted |-> FALSE, details |-> NoData, loading |-> FALSE,
            error |-> Null]

\* the useState initial values; the first render mounts no modal
InitGalleryState ==
    /\ avatars = <<>>
    /\ groups = <<>>
    /\ loading = TRUE
    /\ groupsLoading = TRUE
    /\ error = Null
    /\ viewMode = "avatars"
    /\ selectedAvatarId = Null
    /\ filters = [gender |-> "all", premiumOnly |-> FALSE,
                  selectedGroup |-> Undefined]
    /\ currentPage = 1
    /\ totalPages = 1
    /\ totalItems = 0
    /\ mounted = FALSE
    /\ inflight = EmptyBag
    /\ groupsInflight = 0
    /\ completed = FALSE
    /\ ev = [kind |-> "Init"]
    /\ lastIssued = NoRequest
    /\ modal = NoModal
    /\ modalOpens = 0
    /\ detailsInflight = EmptyBag

\* fetchAvatars that ignores its page argument and asks for currentPage
AvatarsRequestStalePage(page, resetPage, group) ==
    [params |-> [page |-> IF resetPage THEN 1 ELSE currentPage,
                 page_size |-> PageSize],
     groupId |-> group,
     resetPage |-> resetPage]

\* fetchAvatars memoised without filters.selectedGroup among its
\* dependencies: the request carries the group of the render before
AvatarsRequestStaleGroup(page, resetPage, group) ==
    [params |-> [page |-> IF resetPage THEN 1 ELSE page,
                 page_size |-> PageSize],
     groupId |-> filters.selectedGroup,
     resetPage |-> resetPage]

\* the request fetchAvatars(page, resetPage) sends, with the group its
\* closure holds
AvatarsRequest(page, resetPage, group) ==
    [params |-> [page |-> IF resetPage THEN 1 ELSE page,
                 page_size |-> PageSize],
     groupId |-> group,
     resetPage |-> resetPage]

\* fetchAvatars up to its await: setLoading(true), setError(null), request sent
StartFetchAvatars(reqs) ==
    /\ BagCardinality(inflight) + groupsInflight + Len(reqs) <= MaxInFlight
    /\ loading' = (IF Len(reqs) > 0 THEN TRUE ELSE loading)
    /\ error' = (IF Len(reqs) > 0 THEN Null ELSE error)
    /\ inflight' = IF Len(reqs) = 0 THEN inflight
                   ELSE IF Len(reqs) = 1 THEN inflight (+) SetToBag({reqs[1]})
                   ELSE inflight (+) SetToBag({reqs[1]}) (+) SetToBag({reqs[2]})
    /\ lastIssued' = (IF Len(reqs) = 0 THEN lastIssued ELSE reqs[Len(reqs)])

\* fetchGroups up to its await: setGroupsLoading(true), request sent
StartFetchGroups ==
    /\ BagCardinality(inflight) + groupsInflight < MaxInFlight
    /\ groupsLoading' = TRUE
    /\ groupsInflight' = groupsInflight + 1

\* the group effect without a dependency list: it runs after every render
GroupEffectRequestsEveryRender(oldGroup, newGroup, isLoadingGroups) ==
    IF ~isLoadingGroups
    THEN << AvatarsRequest(1, TRUE, newGroup) >>
    ELSE << >>

\* useEffect(..., [filters.selectedGroup]): the requests the effect sends
\* after a render in which selectedGroup is newGroup and was oldGroup
GroupEffectRequests(oldGroup, newGroup, isLoadingGroups) ==
    IF newGroup # oldGroup /\ ~isLoadingGroups
    THEN << AvatarsRequest(1, TRUE, newGroup) >>
    ELSE << >>

\* a mount effect that only calls fetchGroups() and leaves the first
\* avatars fetch for later
MountAwaitsGroups ==
    /\ ~mounted
    /\ mounted' = TRUE
    /\ StartFetchGroups
    /\ StartFetchAvatars(<< >>)
    /\ ev' = [kind |-> "Mount"]
    /\ UNCHANGED <<avatars, groups, viewMode, selectedAvatarId, filters,
                   currentPage, totalPages, totalItems, completed, clientVars, modalVars>>

\* the two effects of the first render: fetchGroups(); fetchAvatars(1, true);
\* then the group effect, which runs on mount too, with the groupsLoading
\* of that render
Mount ==
    /\ ~mounted
    /\ mounted' = TRUE
    /\ StartFetchGroups
    /\ StartFetchAvatars(
          << AvatarsRequest(1, TRUE, filters.selectedGroup) >>
          \o (IF ~groupsLoading
              THEN << AvatarsRequest(1, TRUE, filters.selectedGroup) >>
              ELSE << >>))
    /\ ev' = [kind |-> "Mount"]
    /\ UNCHANGED <<avatars, groups, viewMode, selectedAvatarId, filters,
                   currentPage, totalPages, totalItems, completed, clientVars, modalVars>>

\* the filter callback with `||` where the code has `&&` in the premium test
FilterKeepsPremiumOrAll(avatar, f) ==
    IF f.gender # "all" /\ avatar.gender # f.gender THEN FALSE
    ELSE IF f.premiumOnly \/ ~avatar.premium THEN FALSE
    ELSE TRUE

\* the callback of avatars.filter(...) in filteredAvatars, with its two
\* early returns
FilterKeeps(avatar, f) ==
    IF f.gender # "all" /\ avatar.gender # f.gender THEN FALSE
    ELSE IF f.premiumOnly /\ ~avatar.premium THEN FALSE
    ELSE TRUE

\* Array.prototype.filter with that callback: the elements from index i on
\* that the callback keeps, appended in index order to acc
RECURSIVE FilterFrom(_, _, _, _)
FilterFrom(list, f, i, acc) ==
    IF i > Len(list) THEN acc
    ELSE FilterFrom(list, f, i + 1,
                    IF FilterKeeps(list[i], f) THEN Append(acc, list[i])
                    ELSE acc)

\* filteredAvatars = useMemo(() => avatars.filter(...), [avatars, filters])
FilteredAvatars(list, f) == FilterFrom(list, f, 1, <<>>)

\* the group effect with [filters] as its dependency list
SetFiltersAndRenderAnyChange(newFilters) ==
    /\ filters' = newFilters
    /\ StartFetchAvatars(IF newFilters # filters /\ ~groupsLoading
                         THEN << AvatarsRequest(1, TRUE,
                                                newFilters.selectedGroup) >>
                         ELSE << >>)

\* setFilters(newFilters), the re-render, and the group effect of that render
SetFiltersAndRender(newFilters) ==
    /\ filters' = newFilters
    /\ StartFetchAvatars(GroupEffectRequests(filters.selectedGroup,
                                             newFilters.selectedGroup,
                                             groupsLoading))

\* handleFiltersChange(newFilters)
HandleFiltersChange(newFilters) ==
    /\ mounted
    /\ SetFiltersAndRender(newFilters)
    /\ ev' = [kind |-> "Handler"]
    /\ UNCHANGED <<avatars, groups, groupsLoading, viewMode, selectedAvatarId,
                   currentPage, totalPages, totalItems, mounted,
                   groupsInflight, completed, clientVars, modalVars>>

\* handleGroupChange(groupId)
HandleGroupChange(groupId) ==
    /\ mounted
    /\ SetFiltersAndRender([filters EXCEPT !.selectedGroup = groupId])
    /\ ev' = [kind |-> "Handler"]
    /\ UNCHANGED <<avatars, groups, groupsLoading, viewMode, selectedAvatarId,
                   currentPage, totalPages, totalItems, mounted,
                   groupsInflight, completed, clientVars, modalVars>>

\* handleGroupSelect that builds the filters anew instead of spreading prev
HandleGroupSelectResetsFilters(groupId) ==
    /\ mounted
    /\ SetFiltersAndRender([gender |-> "all", premiumOnly |-> FALSE,
                            selectedGroup |-> groupId])
    /\ viewMode' = "avatars"
    /\ ev' = [kind |-> "GroupSelect"]
    /\ UNCHANGED <<avatars, groups, groupsLoading, selectedAvatarId,
                   currentPage, totalPages, totalItems, mounted,
                   groupsInflight, completed, clientVars, modalVars>>

\* handleGroupSelect(groupId)
HandleGroupSelect(groupId) ==
    /\ mounted
    /\ SetFiltersAndRender([filters EXCEPT !.selectedGroup = groupId])
    /\ viewMode' = "avatars"
    /\ ev' = [kind |-> "GroupSelect"]
    /\ UNCHANGED <<avatars, groups, groupsLoading, selectedAvatarId,
                   currentPage, totalPages, totalItems, mounted,
                   groupsInflight, completed, clientVars, modalVars>>

\* the Clear Filters button: setFilters({ gender: 'all', premiumOnly: false })
ClearFilters ==
    /\ mounted
    /\ SetFiltersAndRender([gender |-> "all", premiumOnly |-> FALSE,
                            selectedGroup |-> Undefined])
    /\ ev' = [kind |-> "Handler"]
    /\ UNCHANGED <<avatars, groups, groupsLoading, viewMode, selectedAvatarId,
                   currentPage, totalPages, totalItems, mounted,
                   groupsInflight, completed, clientVars, modalVars>>

\* handlePageChange without the upper bound on the page
PageChangeAcceptedNoUpperBound(page) ==
    page # currentPage /\ page >= 1

\* the condition under which handlePageChange fetches
PageChangeAccepted(page) ==
    page # currentPage /\ page >= 1 /\ page <= totalPages

\* handlePageChange(page)
HandlePageChange(page) ==
    /\ mounted
    /\ StartFetchAvatars(IF PageChangeAccepted(page)
                         THEN << AvatarsRequest(page, FALSE,
                                                filters.selectedGroup) >>
                         ELSE << >>)
    /\ ev' = [kind |-> "PageChange"]
    /\ UNCHANGED <<avatars, groups, groupsLoading, viewMode, selectedAvatarId,
                   filters, currentPage, totalPages, totalItems, mounted,
                   groupsInflight, completed, clientVars, modalVars>>

\* handleRetry that calls fetchAvatars(currentPage) whatever the view mode
HandleRetryAvatarsOnly ==
    /\ mounted
    /\ StartFetchAvatars(<< AvatarsRequest(currentPage, FALSE,
                                           filters.selectedGroup) >>)
    /\ ev' = [kind |-> "Handler"]
    /\ UNCHANGED <<avatars, groups, groupsLoading, viewMode, selectedAvatarId,
                   filters, currentPage, totalPages, totalItems, mounted,
                   groupsInflight, completed, clientVars, modalVars>>

\* handleRetry()
HandleRetry ==
    /\ mounted
    /\ IF viewMode = "groups"
       THEN /\ StartFetchGroups
            /\ UNCHANGED <<loading, error, inflight, lastIssued>>
       ELSE /\ StartFetchAvatars(<< AvatarsRequest(currentPage, FALSE,
                                                   filters.selectedGroup) >>)
            /\ UNCHANGED <<groupsLoading, groupsInflight>>
    /\ ev' = [kind |-> "Handler"]
    /\ UNCHANGED <<avatars, groups, viewMode, selectedAvatarId, filters,
                   currentPage, totalPages, totalItems, mounted, completed,
                   clientVars, modalVars>>

\* handleViewModeChange that fetches the groups again when the groups view
\* is opened
HandleViewModeChangeRefetches(mode) ==
    /\ mounted
    /\ viewMode' = mode
    /\ IF mode = "groups" /\ viewMode # "groups"
       THEN StartFetchGroups
       ELSE UNCHANGED <<groupsLoading, groupsInflight>>
    /\ ev' = [kind |-> "Handler"]
    /\ UNCHANGED <<avatars, groups, loading, error, selectedAvatarId, filters,
                   currentPage, totalPages, totalItems, mounted, inflight,
                   lastIssued, completed, clientVars, modalVars>>

\* handleViewModeChange(mode)
HandleViewModeChange(mode) ==
    /\ mounted
    /\ viewMode' = mode
    /\ ev' = [kind |-> "Handler"]
    /\ UNCHANGED <<avatars, groups, loading, groupsLoading, error,
                   selectedAvatarId, filters, currentPage, totalPages,
                   totalItems, mounted, inflight, lastIssued, groupsInflight, completed,
                   clientVars, modalVars>>

\* a modal instance right after its first render: useState(null),
\* useState(false), useState(null)
MountedModal == [mounted |-> TRUE, details |-> NoData, loading |-> FALSE,
                 error |-> Null]

\* the request fetchAvatarDetails of the given modal instance sends
DetailsRequest(avatarId, instance) ==
    [avatarId |-> avatarId, instance |-> instance]

\* fetchAvatarDetails up to its await, in modal state m: setLoading(true),
\* setError(null), request sent
StartFetchDetails(m, avatarId, instance) ==
    /\ BagCardinality(detailsInflight) < MaxDetailsInFlight
    /\ modal' = [m EXCEPT !.loading = TRUE, !.error = Null]
    /\ detailsInflight' =
          detailsInflight (+) SetToBag({DetailsRequest(avatarId, instance)})

\* handleShowAvatarDetails(avatarId), the re-render and the modal's
\* [isOpen, avatarId] effect: with no modal mounted the render mounts a new
\* instance, whose effect fetches; with one mounted the instance stays and
\* its effect fetches again when avatarId changed
HandleShowAvatarDetails(avatarId) ==
    /\ mounted
    /\ selectedAvatarId' = avatarId
    /\ IF ~modal.mounted
       THEN /\ modalOpens < MaxModalOpens
            /\ modalOpens' = modalOpens + 1
            /\ StartFetchDetails(MountedModal, avatarId, modalOpens + 1)
       ELSE IF avatarId # selectedAvatarId
       THEN /\ StartFetchDetails(modal, avatarId, modalOpens)
            /\ UNCHANGED modalOpens
       ELSE UNCHANGED modalVars
    /\ ev' = [kind |-> "ShowDetails"]
    /\ UNCHANGED <<avatars, groups, loading, groupsLoading, error, viewMode,
                   filters, currentPage, totalPages, totalItems, mounted,
                   inflight, lastIssued, groupsInflight, completed,
                   clientVars>>

\* handleCloseAvatarDetails() and the re-render, which unmounts the modal
HandleCloseAvatarDetails ==
    /\ mounted
    /\ selectedAvatarId' = Null
    /\ modal' = NoModal
    /\ ev' = [kind |-> "CloseDetails"]
    /\ UNCHANGED <<avatars, groups, loading, groupsLoading, error, viewMode,
                   filters, currentPage, totalPages, totalItems, mounted,
                   inflight, lastIssued, groupsInflight, completed,
                   clientVars, modalOpens, detailsInflight>>

\* the modal's handleClose (close button, backdrop): setDetails(null),
\* setError(null), setPlayingVoice(null), onClose()
HandleClose ==
    /\ modal.mounted
    /\ HandleCloseAvatarDetails

\* the ErrorDisplay of the modal calls fetchAvatarDetails again
HandleDetailsRetry ==
    /\ modal.mounted
    /\ ~modal.loading
    /\ Truthy(modal.error)
    /\ StartFetchDetails(modal, selectedAvatarId, modalOpens)
    /\ ev' = [kind |-> "DetailsRetry"]
    /\ UNCHANGED <<galleryVars, lastIssued, clientVars, modalOpens>>

\* the setters of a modal instance take effect on any mounted modal
ModalAliveAnyInstance(req) == modal.mounted

\* the instance that sent req is still mounted; the setters of an
\* unmounted instance do nothing
ModalAlive(req) == modal.mounted /\ req.instance = modalOpens

\* fetchAvatarDetails from its await on: `if (response.error) throw`,
\* setDetails(response.data), catch: setError(message), finally:
\* setLoading(false)
ApplyDetailsResponse(r) ==
    modal' = IF r.rejected
             THEN [modal EXCEPT !.error = "Unknown error occurred",
                                !.loading = FALSE]
             ELSE IF Truthy(r.value.error)
             THEN [modal EXCEPT !.error = "Failed to fetch avatar details",
                                !.loading = FALSE]
             ELSE [modal EXCEPT !.details = r.value.data,
                                !.loading = FALSE]

\* one detail request gets its response
ResolveDetails(req, outcome) ==
    /\ BagIn(req, detailsInflight)
    /\ detailsInflight' = detailsInflight (-) SetToBag({req})
    /\ IF ModalAlive(req)
       THEN ApplyDetailsResponse(FetchAvatarDetails(req.avatarId, outcome))
       ELSE UNCHANGED modal
    /\ ev' = [kind |-> "DetailsResolved", req |-> req]
    /\ UNCHANGED <<galleryVars, lastIssued, clientVars, modalOpens>>

\* what the modal shows: nothing when unmounted, else the spinner, the
\* ErrorDisplay with the error, the details, or an empty body
ModalView ==
    IF ~modal.mounted
    THEN [screen |-> "None", message |-> Null, details |-> NoData]
    ELSE IF modal.loading
    THEN [screen |-> "LoadingSpinner", message |-> Null, details |-> NoData]
    ELSE IF Truthy(modal.error)
    THEN [screen |-> "ErrorDisplay", message |-> modal.error,
          details |-> NoData]
    ELSE IF modal.details # NoData
    THEN [screen |-> "Details", message |-> Null, details |-> modal.details]
    ELSE [screen |-> "Empty", message |-> Null, details |-> NoData]

\* the avatars response takes the catch branch of fetchAvatars: the client
\* promise rejected, `if (response.error)` threw, or reading
\* response.data.avatars threw a TypeError
AvatarsResponseFails(r) ==
    r.rejected \/ Truthy(r.value.error) \/ r.value.data = NoData

\* err instanceof Error ? err.message : 'Unknown error occurred'
AvatarsErrorMessage(r) ==
    IF r.rejected THEN "Unknown error occurred"
    ELSE IF Truthy(r.value.error) THEN "Failed to fetch avatars from API"
    ELSE "Cannot read properties of null (reading 'avatars')"

\* fetchAvatars that drops the displayed page when the response fails
ApplyAvatarsResponseClearOnFailure(req, r) ==
    /\ IF AvatarsResponseFails(r)
       THEN /\ error' = AvatarsErrorMessage(r)
            /\ avatars' = <<>>
            /\ UNCHANGED <<totalPages, totalItems, currentPage>>
       ELSE /\ avatars' = r.value.data.avatars
            /\ totalPages' = r.value.data.total_pages
            /\ totalItems' = r.value.data.total
            /\ currentPage' = (IF req.resetPage THEN 1 ELSE r.value.data.page)
            /\ UNCHANGED error
    /\ loading' = FALSE

\* fetchAvatars with request fencing: a response for another group than the
\* selected one is discarded
ApplyAvatarsResponseFenced(req, r) ==
    /\ IF AvatarsResponseFails(r)
       THEN /\ error' = AvatarsErrorMessage(r)
            /\ UNCHANGED <<avatars, totalPages, totalItems, currentPage>>
       ELSE IF req.groupId # filters.selectedGroup
       THEN UNCHANGED <<avatars, totalPages, totalItems, currentPage, error>>
       ELSE /\ avatars' = r.value.data.avatars
            /\ totalPages' = r.value.data.total_pages
            /\ totalItems' = r.value.data.total
            /\ currentPage' = (IF req.resetPage THEN 1 ELSE r.value.data.page)
            /\ UNCHANGED error
    /\ loading' = FALSE

\* fetchAvatars whose success branch stores the avatars and leaves the page
\* counters and the loading flag to a later continuation
ApplyAvatarsResponseAvatarsFirst(req, r) ==
    IF AvatarsResponseFails(r)
    THEN /\ error' = AvatarsErrorMessage(r)
         /\ loading' = FALSE
         /\ UNCHANGED <<avatars, totalPages, totalItems, currentPage>>
    ELSE /\ avatars' = r.value.data.avatars
         /\ UNCHANGED <<totalPages, totalItems, currentPage, error, loading>>

\* fetchAvatars with setLoading(false) at the end of the try block instead
\* of in finally
ApplyAvatarsResponseNoFinally(req, r) ==
    IF AvatarsResponseFails(r)
    THEN /\ error' = AvatarsErrorMessage(r)
         /\ UNCHANGED <<avatars, totalPages, totalItems, currentPage, loading>>
    ELSE /\ avatars' = r.value.data.avatars
         /\ totalPages' = r.value.data.total_pages
         /\ totalItems' = r.value.data.total
         /\ currentPage' = (IF req.resetPage THEN 1 ELSE r.value.data.page)
         /\ loading' = FALSE
         /\ UNCHANGED error

\* fetchAvatars from its await on, for the request req whose response is r
ApplyAvatarsResponse(req, r) ==
    /\ IF AvatarsResponseFails(r)
       THEN /\ error' = AvatarsErrorMessage(r)
            /\ UNCHANGED <<avatars, totalPages, totalItems, currentPage>>
       ELSE /\ avatars' = r.value.data.avatars
            /\ totalPages' = r.value.data.total_pages
            /\ totalItems' = r.value.data.total
            /\ currentPage' = (IF req.resetPage THEN 1 ELSE r.value.data.page)
            /\ UNCHANGED error
    /\ loading' = FALSE

\* history: the most recent request, sent after req, has resolved before
\* req does
Overtaken(req) == lastIssued = NoRequest

\* a fetchAvatars whose success branch sets the group filter to the group
\* of the response
ResolveAvatarsSetsGroup(req, outcome) ==
    /\ BagIn(req, inflight)
    /\ LET r == FetchAvatars(req.params, req.groupId, outcome)
       IN /\ ApplyAvatarsResponse(req, r)
          /\ ev' = IF AvatarsResponseFails(r)
                   THEN [kind |-> "AvatarsFailed", req |-> req,
                         overtaken |-> Overtaken(req)]
                   ELSE [kind |-> "AvatarsSuccess", req |-> req,
                         overtaken |-> Overtaken(req),
                         data |-> r.value.data]
          /\ filters' = IF AvatarsResponseFails(r) THEN filters
                        ELSE [filters EXCEPT !.selectedGroup = req.groupId]
    /\ inflight' = inflight (-) SetToBag({req})
    /\ lastIssued' = (IF BagIn(lastIssued, inflight') THEN lastIssued
                      ELSE NoRequest)
    /\ completed' = TRUE
    /\ UNCHANGED <<groups, groupsLoading, viewMode, selectedAvatarId,
                   mounted, groupsInflight, clientVars, modalVars>>

\* a fetchAvatars whose catch block sends the failed request again
ResolveAvatarsAutoRetry(req, outcome) ==
    /\ BagIn(req, inflight)
    /\ LET r == FetchAvatars(req.params, req.groupId, outcome)
       IN /\ ApplyAvatarsResponse(req, r)
          /\ ev' = IF AvatarsResponseFails(r)
                   THEN [kind |-> "AvatarsFailed", req |-> req,
                         overtaken |-> Overtaken(req)]
                   ELSE [kind |-> "AvatarsSuccess", req |-> req,
                         overtaken |-> Overtaken(req),
                         data |-> r.value.data]
          /\ inflight' = (IF AvatarsResponseFails(r) THEN inflight
                          ELSE inflight (-) SetToBag({req}))
    /\ lastIssued' = (IF BagIn(lastIssued, inflight') THEN lastIssued
                      ELSE NoRequest)
    /\ completed' = TRUE
    /\ UNCHANGED <<groups, groupsLoading, viewMode, selectedAvatarId, filters,
                   mounted, groupsInflight, clientVars, modalVars>>

\* one avatars request gets its response
ResolveAvatars(req, outcome) ==
    /\ BagIn(req, inflight)
    /\ LET r == FetchAvatars(req.params, req.groupId, outcome)
       IN /\ ApplyAvatarsResponse(req, r)
          /\ ev' = IF AvatarsResponseFails(r)
                   THEN [kind |-> "AvatarsFailed", req |-> req,
                         overtaken |-> Overtaken(req)]
                   ELSE [kind |-> "AvatarsSuccess", req |-> req,
                         overtaken |-> Overtaken(req),
                         data |-> r.value.data]
    /\ inflight' = inflight (-) SetToBag({req})
    /\ lastIssued' = (IF BagIn(lastIssued, inflight') THEN lastIssued
                      ELSE NoRequest)
    /\ completed' = TRUE
    /\ UNCHANGED <<groups, groupsLoading, viewMode, selectedAvatarId, filters,
                   mounted, groupsInflight, clientVars, modalVars>>

\* the groups response takes a setGroups([]) branch of fetchGroups
GroupsResponseFails(r) ==
    r.rejected \/ Truthy(r.value.error) \/ r.value.data = NoData

\* fetchGroups whose failure branches leave the groups as they were
ApplyGroupsResponseKeepOnFailure(r) ==
    /\ groups' = (IF GroupsResponseFails(r) THEN groups
                  ELSE r.value.data.avatar_groups)
    /\ groupsLoading' = FALSE

\* fetchGroups from its await on
ApplyGroupsResponse(r) ==
    /\ groups' = (IF GroupsResponseFails(r) THEN <<>>
                  ELSE r.value.data.avatar_groups)
    /\ groupsLoading' = FALSE

\* one groups request gets its response
ResolveGroups(outcome) ==
    /\ groupsInflight > 0
    /\ LET r == FetchAvatarGroups(FALSE, outcome)
       IN /\ ApplyGroupsResponse(r)
          /\ ev' = [kind |-> IF GroupsResponseFails(r)
                             THEN "GroupsFailed" ELSE "GroupsSuccess"]
    /\ groupsInflight' = groupsInflight - 1
    /\ UNCHANGED <<avatars, loading, error, viewMode, selectedAvatarId,
                   filters, currentPage, totalPages, totalItems, mounted,
                   inflight, lastIssued, completed, clientVars, modalVars>>

----------------------------------------------------------------------------
(* What AvatarGallery renders *)

\* the part of the returned JSX that depends on the fetch state: which
\* screen, the ErrorDisplay message and retry handler if an ErrorDisplay is
\* rendered (Null otherwise), the avatar cards of the grid, the group cards,
\* the page-change overlay and the pagination controls
View(screen, view, message, onRetry, cards, groupCards, overlay, pages) ==
    [screen |-> screen, view |-> view, message |-> message,
     onRetry |-> onRetry, cards |-> cards, groupCards |-> groupCards,
     overlay |-> overlay, pagination |-> pages]

\* the gallery (the final return): view toggle, then the groups view or the
\* avatars view
GalleryView ==
    IF viewMode = "groups"
    THEN View("Gallery", "groups", Null, Null, << >>, groups, FALSE, FALSE)
    ELSE LET filteredAvatars == FilteredAvatars(avatars, filters)
             emptyState == /\ Len(filteredAvatars) = 0
                           /\ Len(avatars) = 0
                           /\ ~loading
         IN View("Gallery", "avatars",
                 IF emptyState
                 THEN "No avatars found. Please try again later."
                 ELSE Null,
                 IF emptyState THEN "handleRetry" ELSE Null,
                 filteredAvatars, << >>,
                 loading /\ Len(avatars) > 0,
                 totalPages > 1)

\* the render with an error guard that does not look at avatars
RenderedViewErrorOverData ==
    IF \/ loading /\ Len(avatars) = 0
       \/ groupsLoading /\ Len(groups) = 0 /\ viewMode = "groups"
    THEN View("LoadingSpinner", viewMode, Null, Null, << >>, << >>, FALSE,
              FALSE)
    ELSE IF Truthy(error) /\ viewMode = "avatars"
    THEN View("ErrorDisplay", viewMode, error, "handleRetry", << >>, << >>,
              FALSE, FALSE)
    ELSE GalleryView

\* the render of AvatarGallery: the two initial-load guards, then the
\* gallery
RenderedView ==
    IF \/ loading /\ Len(avatars) = 0
       \/ groupsLoading /\ Len(groups) = 0 /\ viewMode = "groups"
    THEN View("LoadingSpinner", viewMode, Null, Null, << >>, << >>, FALSE,
              FALSE)
    ELSE IF Truthy(error) /\ Len(avatars) = 0 /\ viewMode = "avatars"
    THEN View("ErrorDisplay", viewMode, error, "handleRetry", << >>, << >>,
              FALSE, FALSE)
    ELSE GalleryView

\* Array.prototype.find over the groups for an id: the index of the first
\* group with that id from index i on, 0 when there is none
RECURSIVE FindGroupFrom(_, _, _)
FindGroupFrom(list, groupId, i) ==
    IF i > Len(list) THEN 0
    ELSE IF list[i].avatar_group_id = groupId THEN i
    ELSE FindGroupFrom(list, groupId, i + 1)

\* getSelectedGroupName that shows the raw id of a group it does not find
GetSelectedGroupNameRawId ==
    IF ~Truthy(filters.selectedGroup) THEN "All Groups"
    ELSE LET i == FindGroupFrom(groups, filters.selectedGroup, 1)
         IN IF i # 0 THEN groups[i].title ELSE filters.selectedGroup

\* FilterControls.getSelectedGroupName(), with the filters and groups props
\* AvatarGallery passes
GetSelectedGroupName ==
    IF ~Truthy(filters.selectedGroup) THEN "All Groups"
    ELSE LET i == FindGroupFrom(groups, filters.selectedGroup, 1)
         IN IF i # 0 THEN groups[i].title ELSE "Unknown Group"

----------------------------------------------------------------------------
(* Arguments the presentation layer passes to the handlers *)

\* group ids passed to handleGroupChange / handleGroupSelect
GroupArgs == {"group_1"}
\* gender filters passed to handleFiltersChange
GenderArgs == {"all"}
\* filter objects passed to handleFiltersChange
FilterArgs == [gender : GenderArgs, premiumOnly : {FALSE},
               selectedGroup : GroupArgs \cup {Undefined}]
\* avatar ids passed to handleShowAvatarDetails
DetailArgs == {"mock_avatar_4", "Abigail_expressive_2024112501"}
\* every filter object the filter controls can pass to handleFiltersChange
AllFilterArgs == [gender : {"all", "male", "female"}, premiumOnly : BOOLEAN,
                  selectedGroup : GroupArgs \cup {Undefined}]

----------------------------------------------------------------------------
(* Specifications *)

Init ==
    /\ InitGalleryState
    /\ call = NoCall
    /\ result = NoResult

Next ==
    \/ Mount
    \/ \E f \in FilterArgs : HandleFiltersChange(f)
    \/ \E g \in GroupArgs \cup {Undefined} : HandleGroupChange(g)
    \/ \E g \in GroupArgs : HandleGroupSelect(g)
    \/ ClearFilters
    \/ \E n \in 0..MaxPageArg : HandlePageChange(n)
    \/ HandleRetry
    \/ \E m \in {"avatars", "groups"} : HandleViewModeChange(m)
    \/ \E req \in BagToSet(inflight) :
         \E o \in OutcomesSeenOf(LiveAvatarBodies(req.params, req.groupId)) :
            ResolveAvatars(req, o)
    \/ \E o \in OutcomesSeenOf(LiveGroupBodies) : ResolveGroups(o)

Spec == Init /\ [][Next]_vars

\* the steps in which the client answers an avatars request / a groups
\* request
AvatarsResponseArrives ==
    \E req \in BagToSet(inflight) :
      \E o \in OutcomesSeenOf(LiveAvatarBodies(req.params, req.groupId)) :
         ResolveAvatars(req, o)
GroupsResponseArrives ==
    \E o \in OutcomesSeenOf(LiveGroupBodies) : ResolveGroups(o)

\* the fetches of the gallery on its first page: the mount, the selection
\* of a group card, retries in either view, and the responses
NextLive ==
    \/ Mount
    \/ \E g \in GroupArgs : HandleGroupSelect(g)
    \/ HandleRetry
    \/ \E m \in {"avatars", "groups"} : HandleViewModeChange(m)
    \/ AvatarsResponseArrives
    \/ GroupsResponseArrives

\* that gallery when every client call resolves: the promise of a request
\* in flight settles eventually (the client catches every transport failure
\* and returns), and its continuation then runs
SpecLive ==
    /\ Init
    /\ [][NextLive]_vars
    /\ WF_vars(AvatarsResponseArrives)
    /\ WF_vars(GroupsResponseArrives)

\* the gallery under its filter controls: every gender / premium / group
\* filter, the group cards and the view toggle, without paging
NextFilters ==
    \/ Mount
    \/ \E f \in AllFilterArgs : HandleFiltersChange(f)
    \/ \E g \in GroupArgs \cup {Undefined} : HandleGroupChange(g)
    \/ \E g \in GroupArgs : HandleGroupSelect(g)
    \/ ClearFilters
    \/ \E m \in {"avatars", "groups"} : HandleViewModeChange(m)
    \/ \E req \in BagToSet(inflight) :
         \E o \in OutcomesSeenOf(LiveAvatarBodies(req.params, req.groupId)) :
            ResolveAvatars(req, o)
    \/ \E o \in OutcomesSeenOf(LiveGroupBodies) : ResolveGroups(o)

SpecFilters == Init /\ [][NextFilters]_vars

\* the gallery with its details modal: opening, closing, retrying, and the
\* detail responses, after the first page has been requested
NextDetails ==
    \/ Mount
    \/ \E a \in DetailArgs : HandleShowAvatarDetails(a)
    \/ HandleClose
    \/ HandleDetailsRetry
    \/ \E req \in BagToSet(detailsInflight) :
         \E o \in OutcomesSeenOf(LiveDetailBodies(req.avatarId) \cup {NoBody}) :
            ResolveDetails(req, o)
    \/ \E req \in BagToSet(inflight) :
         \E o \in OutcomesSeenOf(LiveAvatarBodies(req.params, req.groupId)) :
            ResolveAvatars(req, o)
    \/ \E o \in OutcomesSeenOf(LiveGroupBodies) : ResolveGroups(o)

SpecDetails == Init /\ [][NextDetails]_vars

\* the client on its own: one call, then its result
ClientApply ==
    /\ result = NoResult
    /\ call # NoCall
    /\ result' = ClientResult(call)
    /\ UNCHANGED <<call, galleryVars, ev, lastIssued, modalVars>>

InitClient ==
    /\ InitGalleryState
    /\ call \in ClientCalls
    /\ result = NoResult

NextClient == ClientApply

SpecClient == InitClient /\ [][NextClient]_vars

----------------------------------------------------------------------------
(* Properties *)

AvatarsResolved(e) == e.kind \in {"AvatarsSuccess", "AvatarsFailed"}

\* C1: whenever filters.selectedGroup changes to a different value, exactly
\* one avatars fetch is issued, for page 1 and scoped to the new group, also
\* while a groups fetch or another avatars fetch is in flight; and once that
\* fetch resolves, currentPage is 1.
C1_GroupChangeFetchesPageOne ==
    [][ /\ filters'.selectedGroup # filters.selectedGroup
           => inflight' = inflight (+) SetToBag(
                 {[params |-> [page |-> 1, page_size |-> PageSize],
                   groupId |-> filters'.selectedGroup,
                   resetPage |-> TRUE]})
        /\ (AvatarsResolved(ev') /\ ev'.req.resetPage) => currentPage' = 1
      ]_vars

\* C2: once an avatars fetch has completed, currentPage <= totalPages in
\* every state.
C2_CurrentPageWithinTotal ==
    completed => currentPage <= totalPages

\* C3: every listAvatars result has totalPages = ceil(total / pageSize) with
\* a floor of 1, also when total is 0.
C3_TotalPagesCeilFloorOne ==
    (call.op = "listAvatars" /\ result # NoResult /\ ~result.rejected
        /\ result.value.data # NoData)
    => result.value.data.total_pages
         = Max(1, MathCeilDiv(result.value.data.total, call.params.page_size))

\* C4: for each of the three client operations and each transport failure
\* (network error, non-success status, unparsable body) the call resolves,
\* never rejects, with a substitute result whose error field is null.
C4_TransportFailureAbsorbed ==
    (result # NoResult /\ call.outcome.transport \in TransportFailures)
    => /\ ~result.rejected
       /\ result.value.error = Null
       /\ result.value.data # NoData
       /\ call.op = "listAvatars"
            => result.value = GetMockAvatarData(call.params, call.groupId)
       /\ call.op = "listGroups" => result.value = GetMockGroupData
       /\ call.op = "getAvatarDetail"
            => result.value = GetMockAvatarDetails(call.avatarId)

C4_Witness ==
    /\ result # NoResult
    /\ call.op = "getAvatarDetail"
    /\ call.outcome.transport = "bad_body"
    /\ result.value.data.avatar_id = call.avatarId

\* the substitute result of a call
FallbackOf(c) ==
    CASE c.op = "listAvatars" -> GetMockAvatarData(c.params, c.groupId)
      [] c.op = "listGroups" -> GetMockGroupData
      [] c.op = "getAvatarDetail" -> GetMockAvatarDetails(c.avatarId)

LogicalFailureCall ==
    /\ call # NoCall
    /\ call.outcome.transport = "ok"
    /\ call.outcome.body.error # Null

\* C5 (as stated): a transport-success response whose error field is
\* non-null makes the client return the fallback dataset.
C5_ErrorBodyTriggersFallback ==
    (result # NoResult /\ LogicalFailureCall) => result.value = FallbackOf(call)

\* C5 (amended): a transport-success response whose error field is non-null
\* is returned to the caller unchanged, error field included; the client
\* substitutes no fallback for it.
C5_ErrorBodyPassedThrough ==
    (result # NoResult /\ LogicalFailureCall)
    => /\ ~result.rejected
       /\ result.value = call.outcome.body
       /\ result.value.error # Null

C5_Witness ==
    /\ result # NoResult
    /\ LogicalFailureCall
    /\ call.op = "listAvatars"
    /\ result.value.error = "api_error"

\* C6: right after a successful avatars resolution is applied, lastError is
\* null, whatever overlapping fetches have failed before.
C6_SuccessClearsError ==
    ev.kind = "AvatarsSuccess" => error = Null

\* C7: when an avatars fetch resolves with a failure, avatars, currentPage,
\* totalPages and totalItems keep their values and lastError becomes a
\* non-null message.
C7_FailurePreservesPage ==
    [][ ev'.kind = "AvatarsFailed"
        => /\ avatars' = avatars
           /\ currentPage' = currentPage
           /\ totalPages' = totalPages
           /\ totalItems' = totalItems
           /\ error' # Null
      ]_vars

C7_Witness ==
    /\ ev.kind = "AvatarsFailed"
    /\ Len(avatars) = PageSize
    /\ currentPage = 2
    /\ error = "Failed to fetch avatars from API"

\* C8: every successful avatars response replaces avatars, totalPages and
\* totalItems with its own values when it resolves, without merging and
\* whether or not a later request has resolved, so the state is that of the
\* last response to resolve.
C8_SuccessReplacesWholesale ==
    ev.kind = "AvatarsSuccess"
    => /\ avatars = ev.data.avatars
       /\ totalPages = ev.data.total_pages
       /\ totalItems = ev.data.total

\* the request sent last has resolved already, and the response to an older
\* request, for the group left behind, resolved after it and is what is
\* displayed
C8_Witness ==
    /\ ev.kind = "AvatarsSuccess"
    /\ ev.overtaken
    /\ ev.req.groupId = Undefined
    /\ filters.selectedGroup = "group_1"
    /\ inflight = EmptyBag
    /\ totalItems = Len(AllMockAvatars)

PageArgOutOfRange(n) == n < 1 \/ n > totalPages \/ n = currentPage

\* C9: ChangePage(n) with n < 1, n > totalPages or n = currentPage leaves
\* the whole orchestrator state unchanged and issues no fetch.
C9_InvalidPageChangeIsNoOp ==
    [][ ev'.kind = "PageChange"
        => \A n \in 0..MaxPageArg :
             (PageArgOutOfRange(n) /\ HandlePageChange(n))
             => UNCHANGED galleryVars ]_vars

\* a page change arrived while the single page of a one-page listing was
\* displayed: whatever page it asked for, it was below 1, beyond totalPages
\* or the current page
C9_Witness ==
    /\ ev.kind = "PageChange"
    /\ totalPages = 1
    /\ currentPage = 1
    /\ completed
    /\ inflight = EmptyBag

\* C10 (as stated): ChangePage(n) for a valid n issues a fetch for page n
\* with the current selectedGroup, and after that fetch resolves
\* currentPage = n and avatars.length <= pageSize.
C10_PageChangeLandsOnPage ==
    [][ /\ ev'.kind = "PageChange"
           => \A n \in 0..MaxPageArg :
                (~PageArgOutOfRange(n) /\ HandlePageChange(n))
                => inflight' = inflight (+) SetToBag(
                      {[params |-> [page |-> n, page_size |-> PageSize],
                        groupId |-> filters.selectedGroup,
                        resetPage |-> FALSE]})
        /\ (AvatarsResolved(ev') /\ ~ev'.req.resetPage)
           => /\ currentPage' = ev'.req.params.page
              /\ Len(avatars') <= PageSize
      ]_vars

\* C10 (amended): ChangePage(n) for a valid n issues a fetch for page n with
\* the current selectedGroup, and when that fetch resolves successfully
\* (with the fallback page or a live page that echoes the request)
\* currentPage = n and avatars.length <= pageSize.
C10_PageChangeLandsOnPageOnSuccess ==
    [][ /\ ev'.kind = "PageChange"
           => \A n \in 0..MaxPageArg :
                (~PageArgOutOfRange(n) /\ HandlePageChange(n))
                => inflight' = inflight (+) SetToBag(
                      {[params |-> [page |-> n, page_size |-> PageSize],
                        groupId |-> filters.selectedGroup,
                        resetPage |-> FALSE]})
        /\ (ev'.kind = "AvatarsSuccess" /\ ~ev'.req.resetPage)
           => /\ currentPage' = ev'.req.params.page
              /\ Len(avatars') <= PageSize
      ]_vars

C10_Witness ==
    /\ ev.kind = "AvatarsSuccess"
    /\ ~ev.req.resetPage
    /\ ev.req.params.page = 2
    /\ currentPage = 2
    /\ Len(avatars) = PageSize

\* the filter of the claim: an avatar is kept iff its gender matches (or
\* gender is 'all') and it is premium (or premiumOnly is off)
KeptByFilters(list, f) ==
    LET Keep(a) == /\ (f.gender = "all" \/ a.gender = f.gender)
                   /\ (~f.premiumOnly \/ a.premium)
    IN SelectSeq(list, Keep)

\* C11: the derived visible list is exactly the order-preserving
\* subsequence of avatars whose gender matches (or gender is 'all') and that
\* are premium (or premiumOnly is off), for every filter setting and every
\* loaded page; it depends on (avatars, gender, premiumOnly) only.
C11_VisibleIsFilteredSubsequence ==
    \A f \in AllFilterArgs :
        /\ FilteredAvatars(avatars, f) = KeptByFilters(avatars, f)
        /\ FilteredAvatars(avatars, f)
             = FilteredAvatars(avatars, [f EXCEPT !.selectedGroup = Undefined])

\* a loaded page of 20 of which the female premium filter keeps some and
\* drops others
C11_Witness ==
    /\ Len(avatars) = PageSize
    /\ filters.gender = "female"
    /\ filters.premiumOnly
    /\ Len(FilteredAvatars(avatars, filters)) \in 1..(PageSize - 1)

C17_GroupSelectKeepsOtherFilters ==
    [][ ev'.kind = "GroupSelect"
        => /\ \E g \in GroupArgs :
                HandleGroupSelect(g) /\ filters'.selectedGroup = g
           /\ viewMode' = "avatars"
           /\ filters'.gender = filters.gender
           /\ filters'.premiumOnly = filters.premiumOnly ]_vars

\* a group card was selected while the female premium filter was set
C17_Witness ==
    /\ ev.kind = "GroupSelect"
    /\ filters.selectedGroup = "group_1"
    /\ viewMode = "avatars"
    /\ filters.gender = "female"
    /\ filters.premiumOnly

\* C13: the mount step issues exactly one groups fetch and exactly one
\* avatars fetch, the latter for page 1 with no group filter; after the step
\* both are in flight together, none having been in flight before.
C13_MountIssuesBothFetches ==
    [][ ev'.kind = "Mount"
        => /\ groupsInflight = 0
           /\ inflight = EmptyBag
           /\ groupsInflight' = 1
           /\ inflight' = SetToBag(
                 {[params |-> [page |-> 1, page_size |-> PageSize],
                   groupId |-> Undefined,
                   resetPage |-> TRUE]}) ]_vars

\* right after the mount: one groups fetch and one avatars fetch in flight
C13_Witness ==
    /\ ev.kind = "Mount"
    /\ groupsInflight = 1
    /\ BagCardinality(inflight) = 1
    /\ loading
    /\ groupsLoading

GroupsResolved(e) == e.kind \in {"GroupsSuccess", "GroupsFailed"}

\* C14: a groups fetch that fails sets groups to the empty list and
\* groupsLoading to false and leaves error as it was; the resolution of a
\* groups fetch, and the start of one by Retry, change none of avatars,
\* currentPage, totalPages, totalItems, loading and the avatars requests in
\* flight.
C14_GroupsFetchIsolated ==
    [][ /\ ev'.kind = "GroupsFailed"
           => /\ groups' = << >>
              /\ groupsLoading' = FALSE
              /\ error' = error
        /\ (GroupsResolved(ev') \/ (ev'.kind = "Handler"
                                    /\ groupsInflight' > groupsInflight))
           => UNCHANGED <<avatars, currentPage, totalPages, totalItems,
                          loading, error, inflight>> ]_vars

\* a groups fetch has failed in the groups view while the avatars page is
\* loaded and shows no error
C14_Witness ==
    /\ ev.kind = "GroupsFailed"
    /\ groups = << >>
    /\ ~groupsLoading
    /\ Len(avatars) = PageSize
    /\ error = Null
    /\ ~loading
    /\ viewMode = "groups"

\* C15: handleRetry issues exactly one fetch: in the groups view a groups
\* fetch and no avatars fetch, otherwise an avatars fetch for currentPage
\* with the current selectedGroup and no groups fetch.
C15_RetryIssuesOneFetchByView ==
    [][ (ev'.kind = "Handler" /\ HandleRetry)
        => IF viewMode = "groups"
           THEN /\ groupsInflight' = groupsInflight + 1
                /\ inflight' = inflight
           ELSE /\ groupsInflight' = groupsInflight
                /\ inflight' = inflight (+) SetToBag(
                      {[params |-> [page |-> currentPage,
                                    page_size |-> PageSize],
                        groupId |-> filters.selectedGroup,
                        resetPage |-> FALSE]}) ]_vars

\* a retry in the groups view: a groups fetch is in flight, no avatars
\* fetch is, and the earlier groups are still there
C15_Witness ==
    /\ ev.kind = "Handler"
    /\ viewMode = "groups"
    /\ groups # << >>
    /\ groupsInflight = 1
    /\ groupsLoading
    /\ inflight = EmptyBag
    /\ completed

\* a step that sends a request: some avatars request has more copies in
\* flight than before, or more groups requests are in flight
FetchIssued ==
    \/ groupsInflight' > groupsInflight
    \/ \E r \in BagToSet(inflight') :
          CopiesIn(r, inflight') > CopiesIn(r, inflight)

\* C16: a resolution step, failed or not, only takes its own request out of
\* flight and sends nothing; every step that sends a request is the mount,
\* a change of selectedGroup, an accepted page change or a retry.
C16_NoAutomaticRetry ==
    [][ CASE AvatarsResolved(ev') ->
               /\ inflight' = inflight (-) SetToBag({ev'.req})
               /\ BagCardinality(inflight') = BagCardinality(inflight) - 1
               /\ groupsInflight' = groupsInflight
          [] GroupsResolved(ev') ->
               /\ groupsInflight' = groupsInflight - 1
               /\ inflight' = inflight
          [] ev'.kind \in {"Mount", "PageChange"} -> TRUE
          [] OTHER ->
               \/ filters'.selectedGroup # filters.selectedGroup
               \/ ~FetchIssued
               \/ ev'.kind = "Handler" /\ HandleRetry ]_vars

\* an avatars fetch has failed and nothing is in flight: the error stays
\* until the user acts
C16_Witness ==
    /\ ev.kind = "AvatarsFailed"
    /\ error # Null
    /\ ~loading
    /\ inflight = EmptyBag
    /\ groupsInflight = 0

\* C18: whenever, in the avatars view, error is non-null, avatars is
\* non-empty and no fetch is loading, the rendered view shows the page of
\* avatars (as filtered) together with an error message.
C18_PriorPageShownWithError ==
    (viewMode = "avatars" /\ error # Null /\ Len(avatars) > 0 /\ ~loading)
    => /\ RenderedView.cards = FilteredAvatars(avatars, filters)
       /\ RenderedView.message # Null

\* C19: whenever error is non-null, avatars is empty, loading is false and
\* viewMode is avatars, the render is the ErrorDisplay with that error as
\* its message and handleRetry as its retry handler, and no avatar card;
\* and no ErrorDisplay is rendered while avatars is non-empty.
C19_ErrorPanelOnlyWithoutData ==
    /\ (error # Null /\ Len(avatars) = 0 /\ ~loading /\ viewMode = "avatars")
       => /\ RenderedView.screen = "ErrorDisplay"
          /\ RenderedView.message = error
          /\ RenderedView.onRetry = "handleRetry"
          /\ RenderedView.cards = << >>
    /\ Len(avatars) > 0
       => /\ RenderedView.screen # "ErrorDisplay"
          /\ RenderedView.message = Null
          /\ RenderedView.onRetry = Null

\* the first load has failed: the ErrorDisplay with the error is rendered
C19_Witness ==
    /\ ev.kind = "AvatarsFailed"
    /\ error # Null
    /\ avatars = << >>
    /\ ~loading
    /\ viewMode = "avatars"
    /\ RenderedView.screen = "ErrorDisplay"

\* C20: a close step leaves selectedAvatarId null and no modal, hence no
\* detail record and no error; a modal opened after it starts without
\* details and error; and a detail response whose modal instance has been
\* closed changes nothing of what any modal holds or shows, be no modal
\* mounted or a later one, for the same or another avatar id.
C20_CloseDiscardsDetailState ==
    [][ /\ ev'.kind = "CloseDetails"
           => /\ selectedAvatarId' = Null
              /\ modal'.details = NoData
              /\ modal'.error = Null
              /\ ModalView'.screen = "None"
        /\ (ev'.kind = "ShowDetails" /\ selectedAvatarId = Null)
           => /\ modal'.details = NoData
              /\ modal'.error = Null
              /\ ModalView'.screen = "LoadingSpinner"
        /\ (ev'.kind = "DetailsResolved"
            /\ (selectedAvatarId = Null \/ ev'.req.instance < modalOpens))
           => /\ modal' = modal
              /\ ModalView' = ModalView ]_vars

\* the response of the first, closed modal has arrived while the second
\* modal, opened for the other avatar, holds the details of its own avatar
C20_Witness ==
    /\ ev.kind = "DetailsResolved"
    /\ ev.req.instance = 1
    /\ modalOpens = 2
    /\ selectedAvatarId # Null
    /\ ev.req.avatarId # selectedAvatarId
    /\ ModalView.screen = "Details"
    /\ ModalView.details.avatar_id = selectedAvatarId

\* the call is one that failed in transport and has resolved
FailedCallResolved ==
    /\ call # NoCall
    /\ result # NoResult
    /\ ClientThrows(call.outcome)

PoolWindow(pool, from, to) ==
    [i \in 1..Max(0, Min(to, Len(pool)) - from) |-> pool[from + i]]

\* the substitute pages 1..n for one page size and group, one after another
RECURSIVE FallbackPagesUpTo(_, _, _)
FallbackPagesUpTo(n, page_size, groupId) ==
    IF n = 0 THEN << >>
    ELSE FallbackPagesUpTo(n - 1, page_size, groupId)
         \o FetchAvatars([page |-> n, page_size |-> page_size], groupId,
                         [transport |-> "network_error",
                          body |-> NoBody]).value.data.avatars

\* a failed listAvatars call without a group filter has resolved
UnfilteredFallbackCall ==
    /\ FailedCallResolved
    /\ call.op = "listAvatars"
    /\ call.groupId \in {Undefined, "", "all"}

\* C22: without a group filter the substitute listAvatars(p, s) pages
\* through the fixed pool of 53 avatars: total is 53, page is p, avatars is
\* pool[(p-1)*s .. p*s), count is the number of avatars and at most s; for
\* p = 1 and s = 20 there are 3 pages and 20 avatars; and the pages 1..
\* ceil(53/s) put one after another are the pool.
C22_FallbackPagesThroughPool ==
    UnfilteredFallbackCall
    => LET d == result.value.data
           pg == call.params.page
           sz == call.params.page_size
       IN /\ Len(AllMockAvatars) = 53
          /\ d.total = 53
          /\ d.page = pg
          /\ d.avatars = PoolWindow(AllMockAvatars, (pg - 1) * sz, pg * sz)
          /\ d.count = Len(d.avatars)
          /\ d.count <= sz
          /\ (pg = 1 /\ sz = 20) => (d.total_pages = 3 /\ d.count = 20)
          /\ FallbackPagesUpTo(MathCeilDiv(53, sz), sz, call.groupId)
               = AllMockAvatars

\* the last page of the pool at page size 20: 13 avatars
C22_Witness ==
    /\ UnfilteredFallbackCall
    /\ call.params = [page |-> 3, page_size |-> 20]
    /\ result.value.data.count = 13
    /\ result.value.data.avatars[13].avatar_id = "mock_avatar_53"

\* the recognized group ids among the arguments, with their ordinals
GroupOrdinal ==
    [g \in {"group_1", "group_2", "group_3", "group_4", "group_5"} |->
        CASE g = "group_1" -> 1 [] g = "group_2" -> 2 [] g = "group_3" -> 3
          [] g = "group_4" -> 4 [] g = "group_5" -> 5]

\* the window pool[(k-1)*15 .. k*15) of the group with ordinal k
GroupWindow(k) == PoolWindow(AllMockAvatars, (k - 1) * 15, k * 15)

AvatarIdsOf(list) == { list[i].avatar_id : i \in 1..Len(list) }

\* a failed listAvatars call for a recognized group has resolved
GroupFallbackCall ==
    /\ FailedCallResolved
    /\ call.op = "listAvatars"
    /\ call.groupId \in DOMAIN GroupOrdinal

\* C23: for a recognized group id group_k the substitute listAvatars first
\* narrows the pool to the window pool[(k-1)*15 .. k*15) and then
\* paginates the window: total is the size of the window, the page is the
\* page of the window, every returned avatar lies in the window, and the
\* windows of distinct recognized groups are disjoint.
C23_FallbackGroupWindow ==
    GroupFallbackCall
    => LET d == result.value.data
           pg == call.params.page
           sz == call.params.page_size
           window == GroupWindow(GroupOrdinal[call.groupId])
       IN /\ d.total = Len(window)
          /\ d.avatars = PoolWindow(window, (pg - 1) * sz, pg * sz)
          /\ AvatarIdsOf(d.avatars) \subseteq AvatarIdsOf(window)
          /\ \A g \in DOMAIN GroupOrdinal \ {call.groupId} :
                /\ AvatarIdsOf(window)
                     \cap AvatarIdsOf(GroupWindow(GroupOrdinal[g])) = {}
                /\ AvatarIdsOf(d.avatars)
                     \cap AvatarIdsOf(FetchAvatars(
                            call.params, g, call.outcome).value.data.avatars)
                     = {}

\* the first page of the second group: the 15 avatars 16..30 of the pool
C23_Witness ==
    /\ GroupFallbackCall
    /\ call.groupId = "group_2"
    /\ call.params = [page |-> 1, page_size |-> 20]
    /\ result.value.data.total = 15
    /\ result.value.data.count = 15
    /\ result.value.data.avatars[1].avatar_id = "mock_avatar_16"

\* the steps of the user action handlers other than the page change
UserHandlerStep(e) ==
    e.kind \in {"Handler", "GroupSelect", "ShowDetails", "CloseDetails"}

\* no phase of an avatars fetch (the mount, a page change or a retry that
\* starts one, and its resolution) changes filters, viewMode,
\* selectedAvatarId or groups
AvatarsFetchFrame ==
    (\/ AvatarsResolved(ev')
     \/ ev'.kind \in {"Mount", "PageChange"}
     \/ ev'.kind = "Handler" /\ HandleRetry /\ viewMode # "groups")
    => UNCHANGED <<filters, viewMode, selectedAvatarId, groups>>

\* C24 (as stated): no phase of an avatars fetch modifies filters, viewMode,
\* selectedAvatarId or groups, and these four change only in steps of the
\* user action handlers.
C24_FrameOnlyUserHandlers ==
    [][ /\ AvatarsFetchFrame
        /\ <<filters, viewMode, selectedAvatarId, groups>>'
              # <<filters, viewMode, selectedAvatarId, groups>>
           => UserHandlerStep(ev') ]_vars

\* C24 (amended): no phase of an avatars fetch modifies filters, viewMode,
\* selectedAvatarId or groups; filters, viewMode and selectedAvatarId
\* change only in steps of the user action handlers, and groups changes
\* only when a groups fetch resolves.
C24_FrameOfAvatarsFetch ==
    [][ /\ AvatarsFetchFrame
        /\ <<filters, viewMode, selectedAvatarId>>'
              # <<filters, viewMode, selectedAvatarId>>
           => UserHandlerStep(ev')
        /\ groups' # groups => GroupsResolved(ev') ]_vars

\* the response to a request without a group was applied while group_1 was
\* selected, the groups view was shown and groups were loaded
C24_Witness ==
    /\ ev.kind = "AvatarsSuccess"
    /\ ev.req.groupId = Undefined
    /\ filters.selectedGroup = "group_1"
    /\ viewMode = "groups"
    /\ groups # << >>

\* C25: a groups fetch is issued once by the mount, which happens once, and
\* afterwards only by handleRetry in the groups view, one per retry; no
\* other step (page change, filter or group change, group selection, view
\* change, detail open or close, any resolution) issues one.
C25_GroupsFetchOnlyMountOrRetry ==
    [][ /\ ev'.kind = "Mount" => (~mounted /\ mounted' /\ groupsInflight' = 1)
        /\ groupsInflight' > groupsInflight
           => /\ groupsInflight' = groupsInflight + 1
              /\ \/ ev'.kind = "Mount"
                 \/ /\ ev'.kind = "Handler"
                    /\ viewMode = "groups"
                    /\ HandleRetry ]_vars

\* a retried groups fetch is still in flight after the user went back to
\* the avatars view and changed the page
C25_Witness ==
    /\ ev.kind = "PageChange"
    /\ groupsInflight = 1
    /\ groups # << >>
    /\ viewMode = "avatars"
    /\ BagCardinality(inflight) = 1

\* C26: the step in which an avatars fetch resolves successfully gives
\* avatars, totalPages, totalItems, currentPage and loading their new values
\* together, the step in which one fails sets error and clears loading
\* together, and no other step changes any of avatars, totalPages,
\* totalItems and currentPage: no state carries part of a response.
C26_ResolutionIsOneStep ==
    [][ /\ ev'.kind = "AvatarsSuccess"
           => /\ avatars' = ev'.data.avatars
              /\ totalPages' = ev'.data.total_pages
              /\ totalItems' = ev'.data.total
              /\ currentPage' = (IF ev'.req.resetPage THEN 1
                                 ELSE ev'.data.page)
              /\ loading' = FALSE
        /\ ev'.kind = "AvatarsFailed"
           => /\ error' # Null
              /\ loading' = FALSE
        /\ <<avatars, totalPages, totalItems, currentPage>>'
              # <<avatars, totalPages, totalItems, currentPage>>
           => ev'.kind = "AvatarsSuccess" ]_vars

\* page 2 of the substitute pool has just been applied: its avatars, the
\* page number, the counters and the cleared loading flag are there together
C26_Witness ==
    /\ ev.kind = "AvatarsSuccess"
    /\ ~ev.req.resetPage
    /\ currentPage = 2
    /\ totalPages = 3
    /\ totalItems = 53
    /\ Len(avatars) = PageSize
    /\ avatars[1].avatar_id = "mock_avatar_21"
    /\ ~loading

\* the ids of the groups in the current groups list
GroupIdsOf(list) == { list[i].avatar_group_id : i \in 1..Len(list) }

\* C27: in every reachable state the selected group is absent and the
\* summary says 'All Groups', or it is the id of a group in the current
\* groups list and the summary shows a title of such a group, or it is in
\* no group of the list and the summary says 'Unknown Group'; also after a
\* groups fetch has replaced or emptied the list under the selection.
C27_SelectedGroupKnownOrUnknown ==
    LET sel == filters.selectedGroup
    IN \/ /\ sel \in {Undefined, Null, ""}
          /\ GetSelectedGroupName = "All Groups"
       \/ /\ sel \in GroupIdsOf(groups)
          /\ \E i \in 1..Len(groups) :
                /\ groups[i].avatar_group_id = sel
                /\ GetSelectedGroupName = groups[i].title
       \/ /\ sel \notin {Undefined, Null, ""}
          /\ sel \notin GroupIdsOf(groups)
          /\ GetSelectedGroupName = "Unknown Group"

\* a groups fetch has replaced the list by one without the selected group
C27_Witness ==
    /\ GroupsResolved(ev)
    /\ filters.selectedGroup = "group_1"
    /\ groups # << >>
    /\ "group_1" \notin GroupIdsOf(groups)
    /\ GetSelectedGroupName = "Unknown Group"

\* C28: whenever at least one avatars fetch is in flight, loading is true,
\* also after an earlier overlapping fetch has resolved.
C28_LoadingWhileInFlight ==
    inflight # EmptyBag => loading

\* C29: when every client call resolves, an avatars fetch in flight leads to
\* a state with loading false and a groups fetch in flight to a state with
\* groupsLoading false; and in every state after the mount with no avatars
\* fetch in flight loading is false, with no groups fetch in flight
\* groupsLoading is false.
C29_LoadingFlagsClear ==
    /\ [](mounted /\ inflight = EmptyBag => ~loading)
    /\ [](mounted /\ groupsInflight = 0 => ~groupsLoading)
    /\ (inflight # EmptyBag) ~> ~loading
    /\ (groupsInflight > 0) ~> ~groupsLoading

\* everything has resolved, the last avatars fetch with a failure, and both
\* flags are clear
C29_Witness ==
    /\ ev.kind = "AvatarsFailed"
    /\ mounted
    /\ inflight = EmptyBag
    /\ groupsInflight = 0
    /\ ~loading
    /\ ~groupsLoading

\* C30: in a state with no avatars fetch in flight that an avatars fetch
\* has just reached by resolving successfully, the applied response is the
\* one to the request for currentPage and the currently selected group.
C30_QuiescentPageOfSelectedGroup ==
    (ev.kind = "AvatarsSuccess" /\ inflight = EmptyBag)
    => /\ ev.req.groupId = filters.selectedGroup
       /\ ev.req.params.page = currentPage

\* C31: whenever the detail view is open and displays a detail record, the
\* record is the one of the currently selected avatar id.
C31_DetailsOfSelectedAvatar ==
    ModalView.screen = "Details"
    => ModalView.details.avatar_id = selectedAvatarId

\* a handler sets filters.selectedGroup to the value it already has
SameGroupSet ==
    \/ HandleGroupChange(filters.selectedGroup)
    \/ HandleGroupSelect(filters.selectedGroup)
    \/ \E f \in AllFilterArgs :
         f.selectedGroup = filters.selectedGroup /\ HandleFiltersChange(f)

C33_RequestsWellFormed ==
    [][ inflight' # inflight
        => \A req \in BagToSet(inflight') :
              CopiesIn(req, inflight') > CopiesIn(req, inflight)
              => /\ req.params.page >= 1
                 /\ req.params.page_size = PageSize
                 /\ req.params.page_size = 20
                 /\ req.groupId = filters'.selectedGroup ]_vars

\* a page change has just sent the request for page 2 with the selected
\* group
C33_Witness ==
    /\ ev.kind = "PageChange"
    /\ lastIssued # NoRequest
    /\ BagIn(lastIssued, inflight)
    /\ lastIssued.params.page = 2
    /\ lastIssued.params.page_size = 20
    /\ lastIssued.groupId = filters.selectedGroup

\* C34: when a failed listAvatars call scoped to a group of the substitute
\* group list has resolved, the total it reports equals the avatar_count
\* the substitute group list gives for that group.
C34_FallbackCountsAgree ==
    (FailedCallResolved /\ call.op = "listAvatars")
    => LET mockGroups == GetMockGroupData.data.avatar_groups
       IN \A i \in 1..Len(mockGroups) :
             mockGroups[i].avatar_group_id = call.groupId
             => result.value.data.total = mockGroups[i].avatar_count
====
